---- MODULE Spec2Model ----
(***************************************************************************)
(* cargo-stylus, `cargo stylus verify`: check/src/verify.rs (verify) and   *)
(* its caller check/src/main.rs (main_impl).                               *)
(*                                                                         *)
(* A run of verify is a straight-line pipeline of fallible stages.  Every  *)
(* stage is one action; the nondeterminism of an action is the answer of   *)
(* the collaborator the stage talks to (RPC endpoint, cargo subprocess,    *)
(* file system).  The project directory a run works in is shared state:    *)
(* `cargo clean` and the build write its artifact directory, and           *)
(* compress_wasm reads the artifact back through the path build_dylib      *)
(* returned.                                                               *)
(*                                                                         *)
(* deploy.rs, project.rs and cargo_stylus_util are not part of the sources *)
(* at hand; the operators that stand for them follow the design document   *)
(* (sections 4.2-4.5) on a scaled-down byte layout.                        *)
(***************************************************************************)
EXTENDS Integers, Sequences, FiniteSets, TLC

\* ----------------------------------------------------------------- bounds
\* Bytes are 0..ByteMax (a scaled-down u8).
ByteMax == 2
\* Longest source file set content of a project, in bytes.
MaxSrcLen == 1
\* Longest transaction input the endpoint may serve, in bytes.
MaxInputLen == 4

\* ------------------------------------------------------ program constants
\* verify.rs:30  `if hash.len() != 32`
HashLen == 32

Byte == 0..ByteMax
ByteMod == ByteMax + 1

SeqsUpTo(S, n) == UNION {[1..k -> S] : k \in 0..n}

\* "no value yet" for a byte string / a byte (no byte is negative).
None == <<-1>>
NoByte == -1
\* The artifact path holds no file.
NoFile == <<-2>>

Runs == {1, 2}
Trees == {1, 2}

\* ------------------------------------------------ collaborators (pure part)
\* Deterministic Compiler: the module is a pure function of the sources
\* (and of the build configuration, which is fixed per project here).
Compile(src) == [i \in 1..Len(src) |-> (src[i] + 1) % ByteMod]

RECURSIVE SumBytes(_)
SumBytes(s) == IF s = <<>> THEN 0 ELSE Head(s) + SumBytes(Tail(s))

\* Project Hasher: a digest of the file set, one byte wide here.
hash_files(src) == (SumBytes(src) + Len(src)) % ByteMod

\* Payload Compressor: a header carrying the project hash, then the
\* (losslessly encoded) module.
compress_wasm(wasm, project_hash) == <<project_hash>> \o wasm

\* The prelude: template opcode, then the length-dependent field.
PreludeOp == 1
PreludeLen == 2
buildPrelude(payloadLength) == <<PreludeOp, payloadLength % ByteMod>>

\* Construct: prelude(len(payload)) ++ payload.
program_deployment_calldata(code) == buildPrelude(Len(code)) \o code

\* Extract fails (MalformedCalldataError) on a blob shorter than the prelude
\* or one that does not carry the template.
ExtractOk(calldata) ==
    /\ Len(calldata) >= PreludeLen
    /\ calldata[1] = PreludeOp
extract_program_evm_deployment_prelude(calldata) == SubSeq(calldata, 1, PreludeLen)
extract_compressed_wasm(calldata) == SubSeq(calldata, PreludeLen + 1, Len(calldata))

\* The calldata verify reconstructs for a project with sources src.
LocalCalldata(src) ==
    program_deployment_calldata(compress_wasm(Compile(src), hash_files(src)))

\* ------------------------------------------------------ verify.rs, pure part
\* Variant: `<` written for `!=`.
HashLenAtLeast(len) == len >= HashLen

\* verify.rs:30  the length test on the decoded hash.
HashLenOk(len) == len = HashLen

\* Variant: the remote input only has to start with the local calldata.
CalldataEqualPrefix(deployment_data, input) ==
    /\ Len(input) >= Len(deployment_data)
    /\ SubSeq(input, 1, Len(deployment_data)) = deployment_data

\* verify.rs:66  `deployment_data == *result.input`
CalldataEqual(deployment_data, input) == deployment_data = input

\* Variant: the test on the preludes inverted.
MismatchLocationInverted(tx_prelude, reconstructed_prelude) ==
    IF tx_prelude = reconstructed_prelude THEN "Prelude" ELSE "Body"

\* verify.rs:75-84  which mismatch is printed.
MismatchLocation(tx_prelude, reconstructed_prelude) ==
    IF tx_prelude # reconstructed_prelude THEN "Prelude" ELSE "Body"

\* Variant: a mismatch is returned as an error.
ReturnErrOnMismatch(verdict) == IF verdict = "Matched" THEN "Ok" ELSE "Err"

\* verify.rs:94  `Ok(())` after either branch of the comparison.
ReturnAfterCompare(verdict) == "Ok"

\* main.rs:75-79,106-110  run!(verify::verify(config).await, "failed to verify");
\* the error is wrapped and propagated, Ok(()) otherwise.
MainResult(r) == IF r = "Ok" THEN "Ok" ELSE "Err"

\* The stages of verify in program order.
Pipeline ==
    << "new_provider", "decode0x", "hash_len", "get_transaction",
       "cargo_clean", "check", "build_dylib", "hash_files",
       "compress_wasm", "program_deployment_calldata", "compare" >>

\* ---------------------------------------------------------------- state
VARIABLES
    chain,            \* the transaction inputs the endpoint can serve
    files,            \* files[t]: the sources of project tree t
    target,           \* target[t]: the wasm artifact on disk in tree t
    tree,             \* tree[r]: the project directory run r works in
    deployment_tx,    \* cfg.deployment_tx of run r: [hex, len]
    pc,               \* the stage run r executes next
    result_input,     \* result.input of run r
    wasm_file,        \* the tree whose artifact path build_dylib returned
    project_hash,
    init_code,
    deployment_data,
    verdict,          \* what the comparison printed
    ret,              \* what verify returned: "Ok", "Err", "Panic"
    err,              \* the error message of an Err
    exit,             \* what main_impl returned
    reads,            \* network reads issued by run r
    log               \* the stages run r executed, with their inputs

vars == << chain, files, target, tree, deployment_tx, pc, result_input,
           wasm_file, project_hash, init_code, deployment_data, verdict,
           ret, err, exit, reads, log >>

Sources == SeqsUpTo(Byte, MaxSrcLen)
Inputs == SeqsUpTo(Byte, MaxInputLen)
DeploymentTxs ==
    {[hex |-> FALSE, len |-> 0]} \cup
    {[hex |-> TRUE, len |-> n] : n \in {0, HashLen - 1, HashLen, HashLen + 1}}

\* The locals of every run before its first statement; runs outside
\* `active` never start.
FreshRuns(active) ==
    /\ pc = [r \in Runs |-> IF r \in active THEN "new_provider" ELSE "off"]
    /\ result_input = [r \in Runs |-> None]
    /\ wasm_file = [r \in Runs |-> 0]
    /\ project_hash = [r \in Runs |-> NoByte]
    /\ init_code = [r \in Runs |-> None]
    /\ deployment_data = [r \in Runs |-> None]
    /\ verdict = [r \in Runs |-> "None"]
    /\ ret = [r \in Runs |-> "None"]
    /\ err = [r \in Runs |-> "None"]
    /\ exit = [r \in Runs |-> "None"]
    /\ reads = [r \in Runs |-> 0]
    /\ log = [r \in Runs |-> <<>>]

\* ------------------------------------------------------------ bookkeeping
Entry(stage, ok, arg) == [stage |-> stage, ok |-> ok, arg |-> arg]

\* Variant: the order of the design document's pipeline, with the rebuild
\* (hash first) ahead of the fetch.
StageAfterRebuildFirst(stage) ==
    CASE stage = "new_provider" -> "decode0x"
      [] stage = "decode0x" -> "hash_len"
      [] stage = "hash_len" -> "cargo_clean"
      [] stage = "cargo_clean" -> "check"
      [] stage = "check" -> "hash_files"
      [] stage = "hash_files" -> "build_dylib"
      [] stage = "build_dylib" -> "compress_wasm"
      [] stage = "compress_wasm" -> "program_deployment_calldata"
      [] stage = "program_deployment_calldata" -> "get_transaction"
      [] stage = "get_transaction" -> "compare"
      [] OTHER -> "returned"

\* The statement order of verify (verify.rs:28-66): the stage that follows.
StageAfter(stage) ==
    CASE stage = "new_provider" -> "decode0x"
      [] stage = "decode0x" -> "hash_len"
      [] stage = "hash_len" -> "get_transaction"
      [] stage = "get_transaction" -> "cargo_clean"
      [] stage = "cargo_clean" -> "check"
      [] stage = "check" -> "build_dylib"
      [] stage = "build_dylib" -> "hash_files"
      [] stage = "hash_files" -> "compress_wasm"
      [] stage = "compress_wasm" -> "program_deployment_calldata"
      [] stage = "program_deployment_calldata" -> "compare"
      [] OTHER -> "returned"

\* The directory the cargo subprocesses of run r work in, and in which
\* build_dylib's artifact path lies: the run's own project tree.
WorkDir(r) == tree[r]

\* A stage succeeded: verify goes on with the next statement.
Proceed(r, stage, arg) ==
    /\ pc' = [pc EXCEPT ![r] = StageAfter(stage)]
    /\ log' = [log EXCEPT ![r] = Append(@, Entry(stage, TRUE, arg))]
    /\ UNCHANGED << ret, err, verdict >>

\* A stage failed: `?` / bail! return the error from verify at once.
Abort(r, stage, arg, msg) ==
    /\ pc' = [pc EXCEPT ![r] = "returned"]
    /\ log' = [log EXCEPT ![r] = Append(@, Entry(stage, FALSE, arg))]
    /\ ret' = [ret EXCEPT ![r] = "Err"]
    /\ err' = [err EXCEPT ![r] = msg]
    /\ UNCHANGED verdict

world == << chain, files, tree, deployment_tx >>
locals == << result_input, wasm_file, project_hash, init_code, deployment_data >>

\* --------------------------------------------------------------- actions
\* verify.rs:28  sys::new_provider(&cfg.common_cfg.endpoint)?
NewProvider(r) ==
    /\ pc[r] = "new_provider"
    /\ \/ Proceed(r, "new_provider", <<>>)
       \/ Abort(r, "new_provider", <<>>, "new_provider failed")
    /\ UNCHANGED << world, locals, target, exit, reads >>

\* verify.rs:29  decode0x(cfg.deployment_tx)?
Decode0x(r) ==
    /\ pc[r] = "decode0x"
    /\ IF deployment_tx[r].hex
         THEN Proceed(r, "decode0x", <<>>)
         ELSE Abort(r, "decode0x", <<>>, "decode0x failed")
    /\ UNCHANGED << world, locals, target, exit, reads >>

\* verify.rs:30-32  if hash.len() != 32 { bail!("Invalid hash") }
CheckHashLen(r) ==
    /\ pc[r] = "hash_len"
    /\ IF HashLenOk(deployment_tx[r].len)
         THEN Proceed(r, "hash_len", <<>>)
         ELSE Abort(r, "hash_len", <<>>, "Invalid hash")
    /\ UNCHANGED << world, locals, target, exit, reads >>

\* verify.rs:33-39  the transaction was found.
TransactionFound(r) ==
    \E input \in chain :
        /\ result_input' = [result_input EXCEPT ![r] = input]
        /\ Proceed(r, "get_transaction", <<>>)

\* Variant: a transport failure is retried.
RpcFailedRetried(r) ==
    /\ pc' = pc
    /\ log' = [log EXCEPT ![r] = Append(@, Entry("get_transaction", FALSE, <<>>))]
    /\ UNCHANGED << ret, err, verdict, result_input >>

\* verify.rs:36  .map_err(|e| eyre!("RPC failed: {e}"))?
RpcFailed(r) ==
    /\ Abort(r, "get_transaction", <<>>, "RPC failed")
    /\ UNCHANGED result_input

\* verify.rs:37-39  else { bail!("No code at address") }
TransactionAbsent(r) ==
    /\ Abort(r, "get_transaction", <<>>, "No code at address")
    /\ UNCHANGED result_input

\* verify.rs:33-39  provider.get_transaction(H256::from_slice(&hash)).await
GetTransaction(r) ==
    /\ pc[r] = "get_transaction"
    /\ reads' = [reads EXCEPT ![r] = @ + 1]
    /\ \/ TransactionFound(r)
       \/ RpcFailed(r)
       \/ TransactionAbsent(r)
    /\ UNCHANGED << world, wasm_file, project_hash, init_code,
                    deployment_data, target, exit >>

\* Variant: the exit status of cargo clean is not looked at.
CargoCleanFailureIgnored(r) ==
    /\ pc' = [pc EXCEPT ![r] = StageAfter("cargo_clean")]
    /\ log' = [log EXCEPT ![r] = Append(@, Entry("cargo_clean", FALSE, <<>>))]
    /\ UNCHANGED << ret, err, verdict, target >>

\* verify.rs:45-47  the subprocess ran and reported failure.
CargoCleanFailed(r) ==
    /\ Abort(r, "cargo_clean", <<>>, "cargo clean command failed")
    /\ UNCHANGED target

\* verify.rs:41-47  cargo clean: removes the artifact directory of the
\* project the run works in.
CargoClean(r) ==
    /\ pc[r] = "cargo_clean"
    /\ \/ /\ Proceed(r, "cargo_clean", <<>>)
          /\ target' = [target EXCEPT ![WorkDir(r)] = NoFile]
       \/ /\ Abort(r, "cargo_clean", <<>>, "failed to execute cargo clean")
          /\ UNCHANGED target
       \/ CargoCleanFailed(r)
    /\ UNCHANGED << world, locals, exit, reads >>

\* verify.rs:48-55  check::check(&check_cfg).await
Check(r) ==
    /\ pc[r] = "check"
    /\ \/ Proceed(r, "check", << files[WorkDir(r)] >>)
       \/ Abort(r, "check", << files[WorkDir(r)] >>, "Stylus checks failed")
    /\ UNCHANGED << world, locals, target, exit, reads >>

\* verify.rs:56-61  project::build_dylib(build_cfg.clone()): compiles the
\* sources, writes the artifact and returns its path.
BuildDylib(r) ==
    /\ pc[r] = "build_dylib"
    /\ \/ /\ Proceed(r, "build_dylib", << files[WorkDir(r)] >>)
          /\ target' = [target EXCEPT ![WorkDir(r)] = Compile(files[WorkDir(r)])]
          /\ wasm_file' = [wasm_file EXCEPT ![r] = WorkDir(r)]
       \/ /\ Abort(r, "build_dylib", << files[WorkDir(r)] >>,
                   "could not build project to WASM")
          /\ UNCHANGED << target, wasm_file >>
    /\ UNCHANGED << world, result_input, project_hash, init_code,
                    deployment_data, exit, reads >>

\* verify.rs:62-63  project::hash_files(source_files_for_project_hash, build_cfg)?
HashFiles(r) ==
    /\ pc[r] = "hash_files"
    /\ \/ /\ Proceed(r, "hash_files", << files[WorkDir(r)] >>)
          /\ project_hash' = [project_hash EXCEPT ![r] = hash_files(files[WorkDir(r)])]
       \/ /\ Abort(r, "hash_files", << files[WorkDir(r)] >>, "hash_files failed")
          /\ UNCHANGED project_hash
    /\ UNCHANGED << world, result_input, wasm_file, init_code,
                    deployment_data, target, exit, reads >>

\* verify.rs:64  project::compress_wasm(&wasm_file, project_hash)?: reads the
\* artifact back from the path build_dylib returned.
CompressWasm(r) ==
    /\ pc[r] = "compress_wasm"
    /\ LET onDisk == target[wasm_file[r]]
           arg == << onDisk, << project_hash[r] >> >>
       IN  IF onDisk = NoFile
             THEN /\ Abort(r, "compress_wasm", arg, "could not read wasm file")
                  /\ UNCHANGED init_code
             ELSE \/ /\ Proceed(r, "compress_wasm", arg)
                     /\ init_code' = [init_code EXCEPT ![r] =
                                         compress_wasm(onDisk, project_hash[r])]
                  \/ /\ Abort(r, "compress_wasm", arg, "compress_wasm failed")
                     /\ UNCHANGED init_code
    /\ UNCHANGED << world, result_input, wasm_file, project_hash,
                    deployment_data, target, exit, reads >>

\* Variant: the calldata is taken from the fetched transaction.
CalldataFromRemote(r) ==
    /\ pc[r] = "program_deployment_calldata"
    /\ Proceed(r, "program_deployment_calldata", << init_code[r] >>)
    /\ deployment_data' = [deployment_data EXCEPT ![r] = result_input[r]]
    /\ UNCHANGED << world, result_input, wasm_file, project_hash, init_code,
                    target, exit, reads >>

\* verify.rs:65  deploy::program_deployment_calldata(&init_code)
Calldata(r) ==
    /\ pc[r] = "program_deployment_calldata"
    /\ Proceed(r, "program_deployment_calldata", << init_code[r] >>)
    /\ deployment_data' = [deployment_data EXCEPT ![r] =
                              program_deployment_calldata(init_code[r])]
    /\ UNCHANGED << world, result_input, wasm_file, project_hash, init_code,
                    target, exit, reads >>

\* verify.rs:66-94  the comparison and the report.  The extractors are called
\* on both sides before anything is printed (lines 69-70); they yield bytes,
\* not a Result, so a failing extraction unwinds out of verify.
Compare(r) ==
    /\ pc[r] = "compare"
    /\ log' = [log EXCEPT ![r] = Append(@,
                  Entry("compare", TRUE, << deployment_data[r], result_input[r] >>))]
    /\ IF CalldataEqual(deployment_data[r], result_input[r])
         THEN /\ verdict' = [verdict EXCEPT ![r] = "Matched"]
              /\ ret' = [ret EXCEPT ![r] = ReturnAfterCompare("Matched")]
              /\ pc' = [pc EXCEPT ![r] = "returned"]
         ELSE IF ExtractOk(result_input[r]) /\ ExtractOk(deployment_data[r])
         THEN LET tx_prelude ==
                      extract_program_evm_deployment_prelude(result_input[r])
                  reconstructed_prelude ==
                      extract_program_evm_deployment_prelude(deployment_data[r])
                  where == MismatchLocation(tx_prelude, reconstructed_prelude)
              IN  /\ verdict' = [verdict EXCEPT ![r] = where]
                  /\ ret' = [ret EXCEPT ![r] = ReturnAfterCompare(where)]
                  /\ pc' = [pc EXCEPT ![r] = "returned"]
         ELSE /\ verdict' = verdict
              /\ ret' = [ret EXCEPT ![r] = "Panic"]
              /\ pc' = [pc EXCEPT ![r] = "aborted"]
    /\ UNCHANGED << world, locals, target, err, exit, reads >>

\* main.rs:106-110  the Verify arm of main_impl.
MainImpl(r) ==
    /\ pc[r] = "returned"
    /\ pc' = [pc EXCEPT ![r] = "exited"]
    /\ exit' = [exit EXCEPT ![r] = MainResult(ret[r])]
    /\ UNCHANGED << world, locals, target, verdict, ret, err, reads, log >>

Step(r) ==
    \/ NewProvider(r)
    \/ Decode0x(r)
    \/ CheckHashLen(r)
    \/ GetTransaction(r)
    \/ CargoClean(r)
    \/ Check(r)
    \/ BuildDylib(r)
    \/ HashFiles(r)
    \/ CompressWasm(r)
    \/ Calldata(r)
    \/ Compare(r)
    \/ MainImpl(r)

Next == \E r \in Runs : Step(r)

\* ------------------------------------------------------- specifications
\* One run, in project tree 1, started on a clean tree; the endpoint may
\* serve any input.
Init ==
    /\ chain = Inputs
    /\ files \in {f \in [Trees -> Sources] : f[2] = <<>>}
    /\ target = [t \in Trees |-> NoFile]
    /\ tree = [r \in Runs |-> 1]
    /\ deployment_tx \in {d \in [Runs -> DeploymentTxs] : d[2] = d[1]}
    /\ FreshRuns({1})

Spec == Init /\ [][Next]_vars

\* One or two runs at once, each in a project tree of its own choice (the
\* same one or not), on a small world: two possible projects, each with or
\* without an artifact left by an earlier build, and an endpoint that serves
\* the deployment of either project or an empty input.
ConcSources == {<<>>, <<0>>}
ConcInputs == {<<>>} \cup {LocalCalldata(s) : s \in ConcSources}

InitConc ==
    /\ chain = ConcInputs
    /\ files \in [Trees -> ConcSources]
    /\ target \in {t \in [Trees -> {NoFile} \cup {Compile(s) : s \in ConcSources}] :
                      \A d \in Trees : t[d] \in {NoFile, Compile(files[d])}}
    /\ tree \in [Runs -> Trees]
    /\ deployment_tx = [r \in Runs |-> [hex |-> TRUE, len |-> HashLen]]
    /\ \E active \in {{1}, Runs} : FreshRuns(active)

SpecConc == InitConc /\ [][Next]_vars

\* ------------------------------------------------------- reading the log
Active == {r \in Runs : pc[r] # "off"}
Finished(r) == pc[r] \in {"returned", "exited", "aborted"}
Executed(r, stage) == \E i \in 1..Len(log[r]) : log[r][i].stage = stage
Compared(r) == Executed(r, "compare")
RebuildStages ==
    {"cargo_clean", "check", "build_dylib", "hash_files", "compress_wasm",
     "program_deployment_calldata"}
Verdicts == {"Matched", "Prelude", "Body"}

C2_MismatchLocation ==
    \A r \in Runs :
        LET remote == result_input[r]
            local == deployment_data[r]
            preludesDiffer ==
                extract_program_evm_deployment_prelude(remote)
                    # extract_program_evm_deployment_prelude(local)
            payloadsDiffer ==
                extract_compressed_wasm(remote) # extract_compressed_wasm(local)
        IN  /\ (Compared(r) /\ local # remote /\ ExtractOk(remote) /\ ExtractOk(local)) =>
                  /\ preludesDiffer => verdict[r] = "Prelude"
                  /\ (~preludesDiffer /\ payloadsDiffer) => verdict[r] = "Body"
                  /\ verdict[r] \in {"Prelude", "Body"}
            /\ verdict[r] = "Prelude" => (Compared(r) /\ preludesDiffer)
            /\ verdict[r] = "Body" =>
                  (Compared(r) /\ ~preludesDiffer /\ payloadsDiffer)

C2_Witness ==
    \E r \in Runs :
        /\ verdict[r] = "Body"
        /\ Len(result_input[r]) # Len(deployment_data[r])

\* ------------------------------------------------------------------ C3
\* C3: whatever input the endpoint returned, a run that reached the
\* comparison ends in exactly one of Matched, Prelude, Body, and never
\* unwinds without a verdict.
C3_ComparisonTotal ==
    \A r \in Runs :
        Compared(r) => (verdict[r] \in Verdicts /\ ret[r] # "Panic")

\* ------------------------------------------------------------------ C4
\* C4: a failed stage is the last stage the run executes; the run then
\* returns an error and no verdict; a failed fetch (transport failure or
\* absent transaction) happens before any rebuild stage.
C4_ErrorAborts ==
    \A r \in Runs :
        /\ \A i \in 1..Len(log[r]) :
              ~log[r][i].ok =>
                  /\ i = Len(log[r])
                  /\ ret[r] = "Err"
                  /\ err[r] # "None"
                  /\ verdict[r] = "None"
                  /\ pc[r] \in {"returned", "exited"}
        /\ ret[r] = "Err" =>
              /\ log[r] # <<>>
              /\ ~log[r][Len(log[r])].ok
        /\ err[r] \in {"RPC failed", "No code at address"} =>
              \A i \in 1..Len(log[r]) : log[r][i].stage \notin RebuildStages
        /\ pc[r] = "exited" /\ ret[r] = "Err" => exit[r] = "Err"

C4_Witness ==
    \E r \in Runs :
        /\ pc[r] = "exited"
        /\ err[r] = "cargo clean command failed"
        /\ result_input[r] # None

\* ------------------------------------------------------------------ C5
\* What each rebuild stage reads, as a function of the project sources alone.
StageInput(stage, src) ==
    CASE stage = "cargo_clean" -> <<>>
      [] stage \in {"check", "build_dylib", "hash_files"} -> << src >>
      [] stage = "compress_wasm" -> << Compile(src), << hash_files(src) >> >>
      [] stage = "program_deployment_calldata" ->
            << compress_wasm(Compile(src), hash_files(src)) >>

\* C5: every rebuild stage receives inputs that are determined by the project
\* tree alone, and so is the reconstructed calldata: two runs over the same
\* project that fetched different transactions rebuild the same calldata.
C5_LocalIndependentOfRemote ==
    \A r \in Runs :
        LET src == files[tree[r]]
        IN  /\ \A i \in 1..Len(log[r]) :
                  log[r][i].stage \in RebuildStages =>
                      log[r][i].arg = StageInput(log[r][i].stage, src)
            /\ deployment_data[r] # None => deployment_data[r] = LocalCalldata(src)

C5_Witness ==
    \E r \in Runs :
        /\ deployment_data[r] # None
        /\ result_input[r] \notin {None, deployment_data[r]}
        /\ Len(result_input[r]) = Len(deployment_data[r])

\* ------------------------------------------------------------------ C9
Is32ByteHash(tx) == tx.hex /\ tx.len = HashLen

\* C9 as stated: a deployment_tx that does not decode to exactly 32 bytes
\* makes the run fail with "Invalid hash", before any fetch or rebuild stage.
C9_InvalidHashOnly ==
    \A r \in Runs :
        (Finished(r) /\ ~Is32ByteHash(deployment_tx[r])) =>
            /\ err[r] = "Invalid hash"
            /\ reads[r] = 0
            /\ \A i \in 1..Len(log[r]) :
                  log[r][i].stage \notin RebuildStages \cup {"get_transaction"}

\* C9 amended: the endpoint is queried only for a 32-byte hash.  A
\* deployment_tx that does not decode to exactly 32 bytes makes the run fail
\* before any fetch or rebuild stage: with "Invalid hash" when it decodes to
\* another length and the provider was created, with the decoder's error when
\* it does not decode, with the provider's error when that came first.
C9_NoFetchWithoutHash ==
    \A r \in Runs :
        /\ Executed(r, "get_transaction") => Is32ByteHash(deployment_tx[r])
        /\ ~Is32ByteHash(deployment_tx[r]) =>
              /\ reads[r] = 0
              /\ \A i \in 1..Len(log[r]) :
                    log[r][i].stage \notin RebuildStages \cup {"get_transaction"}
              /\ Finished(r) =>
                    /\ ret[r] = "Err"
                    /\ err[r] \in {"Invalid hash", "decode0x failed", "new_provider failed"}
                    /\ (err[r] = "Invalid hash") <=>
                          (deployment_tx[r].hex /\ log[r][1].ok)
                    /\ (err[r] = "decode0x failed") <=>
                          (~deployment_tx[r].hex /\ log[r][1].ok)

C9_Witness ==
    \E r \in Runs :
        /\ pc[r] = "exited"
        /\ err[r] = "Invalid hash"
        /\ deployment_tx[r].len = HashLen + 1

\* ----------------------------------------------------------------- C10
\* C10: verify returns Ok after Matched, Prelude and Body alike, and Err only
\* when a stage failed; main_impl passes that result on.
C10_OkWhateverTheVerdict ==
    \A r \in Runs :
        /\ verdict[r] \in Verdicts => ret[r] = "Ok"
        /\ ret[r] = "Ok" => verdict[r] \in Verdicts
        /\ ret[r] = "Err" =>
              /\ verdict[r] = "None"
              /\ \E i \in 1..Len(log[r]) : ~log[r][i].ok
        /\ pc[r] = "exited" => exit[r] = ret[r]

C10_Witness ==
    \E r \in Runs :
        /\ pc[r] = "exited"
        /\ exit[r] = "Ok"
        /\ verdict[r] = "Prelude"

NoStageTwice(r) ==
    \A i, j \in 1..Len(log[r]) : log[r][i].stage = log[r][j].stage => i = j

Position(r, stage) == CHOOSE i \in 1..Len(log[r]) : log[r][i].stage = stage
Before(r, a, b) ==
    Executed(r, b) => (Executed(r, a) /\ Position(r, a) < Position(r, b))

\* C8 as stated: hash, compile, compress, construct, fetch, compare, in this
\* order: the hash before the compiler, the fetch after the construction.
C8_RebuildThenFetch ==
    \A r \in Runs :
        /\ Before(r, "hash_files", "build_dylib")
        /\ Before(r, "build_dylib", "compress_wasm")
        /\ Before(r, "compress_wasm", "program_deployment_calldata")
        /\ Before(r, "program_deployment_calldata", "get_transaction")
        /\ Before(r, "get_transaction", "compare")

\* C8 amended: a run is one sequential pipeline in the order fetch, cargo
\* clean, check, compile, hash, compress, construct, compare: the fetch comes
\* before the rebuild, the hash after the compiler has returned, compression
\* after both, and the comparison last.
C8_FetchThenRebuild ==
    \A r \in Runs :
        /\ NoStageTwice(r)
        /\ Before(r, "get_transaction", "cargo_clean")
        /\ Before(r, "cargo_clean", "check")
        /\ Before(r, "check", "build_dylib")
        /\ Before(r, "build_dylib", "hash_files")
        /\ Before(r, "hash_files", "compress_wasm")
        /\ Before(r, "compress_wasm", "program_deployment_calldata")
        /\ Before(r, "program_deployment_calldata", "compare")
        /\ \A i \in 1..Len(log[r]) :
              (i < Len(log[r]) => log[r][i].ok) /\ log[r][i].stage = Pipeline[i]

C8_Witness ==
    \E r \in Runs :
        /\ Len(log[r]) = Len(Pipeline)
        /\ Finished(r)

\* ------------------------------------------------------------------ C7
\* What a run does when it is the only one: its rebuild stages read what its
\* own project determines (the artifact its own build wrote is there when
\* compress_wasm reads it), and its verdict compares that project's calldata
\* with the transaction it fetched.
AsWhenAlone(r) ==
    LET src == files[tree[r]]
    IN  /\ err[r] # "could not read wasm file"
        /\ \A i \in 1..Len(log[r]) :
              log[r][i].stage \in RebuildStages =>
                  log[r][i].arg = StageInput(log[r][i].stage, src)
        /\ deployment_data[r] # None => deployment_data[r] = LocalCalldata(src)
        /\ verdict[r] = "Matched" => result_input[r] = LocalCalldata(src)

\* C7: under any interleaving, also over the same project tree, every run
\* behaves as it does when run alone.
C7_RunsIndependent == \A r \in Active : AsWhenAlone(r)

\* Runs that share no project tree with another run do behave as when alone.
DisjointRunsIndependent ==
    \A r \in Active :
        (\A q \in Active \ {r} : tree[q] # tree[r]) => AsWhenAlone(r)
====
